---- MODULE Spec2Model ----
(***************************************************************************)
(* The listing-intake conversation of src/car_rental_intake.py.            *)
(*                                                                         *)
(* A conversation is keyed by (chat, user); its state lives in the         *)
(* ConversationHandler.  The Listing lives in context.user_data, which the *)
(* framework keys by user alone.  Every update is handled to completion     *)
(* before the next one is looked at.                                       *)
(*                                                                         *)
(* Texts are sequences of one-character strings, so that strip, title,     *)
(* the regular expression of clean_price and float() are computed          *)
(* character by character.  Replies to the user are assumed to be          *)
(* delivered; only a send to the admin chat may fail.                      *)
(***************************************************************************)
EXTENDS Integers, Sequences, FiniteSets, TLC

VARIABLES
    conv,           \* ConversationHandler state of every (chat, user) key
    user_data,      \* context.user_data of every user: <<>> or <<Listing>>
    sink,           \* per key: what the admin chat received since the key's last /start
    out,            \* replies produced while handling the latest update
    raised,         \* the latest handler raised instead of returning
    handled,        \* the handler that took the latest update, "none" if none did
    ADMIN_CHAT_ID,  \* module constant read from the environment at import
    price_call      \* the latest direct application of clean_price: <<>> or <<text, value>>

vars == <<conv, user_data, sink, out, raised, handled, ADMIN_CHAT_ID, price_call>>

\* ------------------------------------------------------------------ states
NAME == "NAME"
CATEGORY == "CATEGORY"
PRICE == "PRICE"
PHOTO1 == "PHOTO1"
PHOTO2 == "PHOTO2"
REVIEW == "REVIEW"
EDIT_NAME == "EDIT_NAME"
EDIT_PRICE == "EDIT_PRICE"
EDIT_CAT == "EDIT_CAT"
EDIT_P1 == "EDIT_P1"
EDIT_P2 == "EDIT_P2"
\* ConversationHandler.END: the key is dropped, the conversation is TERMINATED
END == "END"

ConvStates ==
    {NAME, CATEGORY, PRICE, PHOTO1, PHOTO2, REVIEW,
     EDIT_NAME, EDIT_PRICE, EDIT_CAT, EDIT_P1, EDIT_P2}

\* ------------------------------------------------------------------ characters
LowerLetters ==
    <<"a","b","c","d","e","f","g","h","i","j","k","l","m",
      "n","o","p","q","r","s","t","u","v","w","x","y","z">>

UpperLetters ==
    <<"A","B","C","D","E","F","G","H","I","J","K","L","M",
      "N","O","P","Q","R","S","T","U","V","W","X","Y","Z">>

DigitChars == <<"0","1","2","3","4","5","6","7","8","9">>

Whitespace == {" ", "\t", "\n"}

IndexIn(c, s) == CHOOSE i \in 1..Len(s) : s[i] = c

IsIn(c, s) == \E i \in 1..Len(s) : s[i] = c

IsLower(c) == IsIn(c, LowerLetters)

IsUpper(c) == IsIn(c, UpperLetters)

IsDigit(c) == IsIn(c, DigitChars)

ToUpper(c) == IF IsLower(c) THEN UpperLetters[IndexIn(c, LowerLetters)] ELSE c

ToLower(c) == IF IsUpper(c) THEN LowerLetters[IndexIn(c, UpperLetters)] ELSE c

DigitValue(c) == IndexIn(c, DigitChars) - 1

\* ------------------------------------------------------------------ str methods
RECURSIVE lstrip(_)
lstrip(s) ==
    IF s # <<>> /\ Head(s) \in Whitespace THEN lstrip(Tail(s)) ELSE s

RECURSIVE rstrip(_)
rstrip(s) ==
    IF s # <<>> /\ s[Len(s)] \in Whitespace
    THEN rstrip(SubSeq(s, 1, Len(s) - 1))
    ELSE s

\* str.strip()
strip(s) == rstrip(lstrip(s))

\* title() left out: the text is compared as typed
title_identity(s) == s

\* str.title(): a cased character is upper-cased when the character before it
\* is not cased, and lower-cased when it is.
title(s) ==
    [i \in 1..Len(s) |->
        LET cased(c) == IsLower(c) \/ IsUpper(c)
            previous_is_cased == i > 1 /\ cased(s[i - 1])
        IN  IF previous_is_cased THEN ToLower(s[i]) ELSE ToUpper(s[i])]

\* ------------------------------------------------------------------ data model
\* Optional[str] = None
None == "None"

\* a float is mant * 10^(-exp), with no trailing zero in the fraction
Float(mant, exp) == [mant |-> mant, exp |-> exp]

\* the None that clean_price returns
NoPrice == Float(-1, 0)

Listing ==
    [name |-> <<>>, category |-> <<>>, price_per_day |-> Float(0, 0),
     photo1_id |-> None, photo2_id |-> None]

CATEGORIES ==
    { <<"E","x","o","t","i","c">>,
      <<"E","c","o","n","o","m","i","c">>,
      <<"L","u","x","u","r","y">> }

RECURSIVE Normalize(_)
Normalize(f) ==
    IF f.exp > 0 /\ f.mant % 10 = 0
    THEN Normalize(Float(f.mant \div 10, f.exp - 1))
    ELSE f

RECURSIVE DigitsToInt(_)
DigitsToInt(ds) ==
    IF ds = <<>> THEN 0
    ELSE 10 * DigitsToInt(SubSeq(ds, 1, Len(ds) - 1)) + DigitValue(ds[Len(ds)])

\* float(cleaned) for a string of digits and '.': ValueError (NoPrice here)
\* when it holds no digit or more than one '.'
float(cleaned) ==
    LET digits == SelectSeq(cleaned, IsDigit)
        dot == IF IsIn(".", cleaned) THEN IndexIn(".", cleaned) ELSE Len(cleaned) + 1
    IN  IF digits = <<>> \/ Len(cleaned) - Len(digits) > 1 THEN NoPrice
        ELSE Normalize(Float(DigitsToInt(digits), Len(cleaned) + 1 - dot
                                 - (IF dot <= Len(cleaned) THEN 1 ELSE 0)))

\* the regular expression without the '.': the decimal point is dropped too
clean_price_no_dot(text) ==
    LET cleaned == SelectSeq(text, IsDigit)
    IN  IF cleaned = <<>> THEN NoPrice ELSE float(cleaned)

\* clean_price with val > 0 for val >= 0: a price of zero is refused
clean_price_positive_only(text) ==
    LET keep(c) == IsDigit(c) \/ c = "."
        cleaned == SelectSeq(text, keep)
        isdot(c) == c = "."
    IN  IF Len(SelectSeq(cleaned, isdot)) > 1 \/ cleaned = <<>> THEN NoPrice
        ELSE LET val == float(cleaned)
             IN  IF val = NoPrice THEN NoPrice
                 ELSE IF val.mant > 0 THEN val ELSE NoPrice

clean_price(text) ==
    LET keep(c) == IsDigit(c) \/ c = "."
        cleaned == SelectSeq(text, keep)
        isdot(c) == c = "."
    IN  IF Len(SelectSeq(cleaned, isdot)) > 1 \/ cleaned = <<>> THEN NoPrice
        ELSE LET val == float(cleaned)
             IN  IF val = NoPrice THEN NoPrice
                 ELSE IF val.mant >= 0 THEN val ELSE NoPrice

\* ------------------------------------------------------------------ updates
\* An update of the transport: a command, a text message, a photo message
\* (its sizes, smallest first), a message with neither (a document), or a
\* button press (callback query) with its callback data.
Update(chat, user, kind, text, photo, data) ==
    [chat |-> chat, user |-> user, kind |-> kind,
     text |-> text, photo |-> photo, data |-> data]

\* what a handler leaves behind: the state it returns, user_data after it,
\* the replies to the user, the sends the admin chat received
Return(ret, ud, replies, sent) ==
    [ret |-> ret, user_data |-> ud, out |-> replies, sent |-> sent, raised |-> FALSE]

\* context.user_data["listing"] without the key: KeyError before any effect
KeyError(ud) ==
    [ret |-> END, user_data |-> ud, out |-> <<>>, sent |-> <<>>, raised |-> TRUE]

Reply(update, msg) == [chat |-> update.chat, msg |-> msg]

send_preview(update) == Reply(update, "preview")

\* ------------------------------------------------------------------ flow
\* cmd_start that creates a Listing only when there is none
cmd_start_keeps_listing(ud, update) ==
    Return(NAME, IF ud = <<>> THEN <<Listing>> ELSE ud,
           <<Reply(update, "send_name")>>, <<>>)

cmd_start(ud, update) ==
    Return(NAME, <<Listing>>, <<Reply(update, "send_name")>>, <<>>)

handle_name(ud, update) ==
    IF ud = <<>> THEN KeyError(ud)
    ELSE Return(CATEGORY,
                <<[ud[1] EXCEPT !.name = strip(update.text)]>>,
                <<Reply(update, "choose_category")>>, <<>>)

handle_category(ud, update) ==
    IF ud = <<>> THEN KeyError(ud)
    ELSE LET choice == title(strip(update.text))
         IN  IF choice \notin CATEGORIES
             THEN Return(CATEGORY, ud, <<Reply(update, "please_choose")>>, <<>>)
             ELSE Return(PRICE,
                         <<[ud[1] EXCEPT !.category = choice]>>,
                         <<Reply(update, "enter_price")>>, <<>>)

\* handle_price returning PHOTO2: the first photo is never asked for
handle_price_skips_photo1(ud, update) ==
    IF ud = <<>> THEN KeyError(ud)
    ELSE LET price == clean_price(update.text)
         IN  IF price = NoPrice
             THEN Return(PRICE, ud, <<Reply(update, "valid_number")>>, <<>>)
             ELSE Return(PHOTO2,
                         <<[ud[1] EXCEPT !.price_per_day = price]>>,
                         <<Reply(update, "send_photo1")>>, <<>>)

handle_price(ud, update) ==
    IF ud = <<>> THEN KeyError(ud)
    ELSE LET price == clean_price(update.text)
         IN  IF price = NoPrice
             THEN Return(PRICE, ud, <<Reply(update, "valid_number")>>, <<>>)
             ELSE Return(PHOTO1,
                         <<[ud[1] EXCEPT !.price_per_day = price]>>,
                         <<Reply(update, "send_photo1")>>, <<>>)

handle_photo1(ud, update) ==
    IF ud = <<>> THEN KeyError(ud)
    ELSE IF update.photo = <<>>
         THEN Return(PHOTO1, ud, <<Reply(update, "send_a_photo")>>, <<>>)
         ELSE Return(PHOTO2,
                     <<[ud[1] EXCEPT !.photo1_id = update.photo[Len(update.photo)]]>>,
                     <<Reply(update, "send_photo2")>>, <<>>)

handle_photo2(ud, update) ==
    IF ud = <<>> THEN KeyError(ud)
    ELSE IF update.photo = <<>>
         THEN Return(PHOTO2, ud, <<Reply(update, "send_a_photo")>>, <<>>)
         ELSE Return(REVIEW,
                     <<[ud[1] EXCEPT !.photo2_id = update.photo[Len(update.photo)]]>>,
                     <<send_preview(update)>>, <<>>)

\* ------------------------------------------------------------------ edit handlers
edit_name(ud, update) ==
    IF ud = <<>> THEN KeyError(ud)
    ELSE Return(REVIEW,
                <<[ud[1] EXCEPT !.name = strip(update.text)]>>,
                <<send_preview(update)>>, <<>>)

\* edit_cat comparing the text as typed, without title()
edit_cat_as_typed(ud, update) ==
    IF ud = <<>> THEN KeyError(ud)
    ELSE LET choice == strip(update.text)
         IN  IF choice \notin CATEGORIES
             THEN Return(EDIT_CAT, ud, <<Reply(update, "please_choose")>>, <<>>)
             ELSE Return(REVIEW,
                         <<[ud[1] EXCEPT !.category = choice]>>,
                         <<send_preview(update)>>, <<>>)

edit_cat(ud, update) ==
    IF ud = <<>> THEN KeyError(ud)
    ELSE LET choice == title(strip(update.text))
         IN  IF choice \notin CATEGORIES
             THEN Return(EDIT_CAT, ud, <<Reply(update, "please_choose")>>, <<>>)
             ELSE Return(REVIEW,
                         <<[ud[1] EXCEPT !.category = choice]>>,
                         <<send_preview(update)>>, <<>>)

edit_price(ud, update) ==
    IF ud = <<>> THEN KeyError(ud)
    ELSE LET price == clean_price(update.text)
         IN  IF price = NoPrice
             THEN Return(EDIT_PRICE, ud, <<Reply(update, "valid_number")>>, <<>>)
             ELSE Return(REVIEW,
                         <<[ud[1] EXCEPT !.price_per_day = price]>>,
                         <<send_preview(update)>>, <<>>)

\* edit_p1 writing the other photo's field
edit_p1_other_field(ud, update) ==
    IF ud = <<>> THEN KeyError(ud)
    ELSE IF update.photo = <<>>
         THEN Return(EDIT_P1, ud, <<Reply(update, "send_a_photo")>>, <<>>)
         ELSE Return(REVIEW,
                     <<[ud[1] EXCEPT !.photo2_id = update.photo[Len(update.photo)]]>>,
                     <<send_preview(update)>>, <<>>)

edit_p1(ud, update) ==
    IF ud = <<>> THEN KeyError(ud)
    ELSE IF update.photo = <<>>
         THEN Return(EDIT_P1, ud, <<Reply(update, "send_a_photo")>>, <<>>)
         ELSE Return(REVIEW,
                     <<[ud[1] EXCEPT !.photo1_id = update.photo[Len(update.photo)]]>>,
                     <<send_preview(update)>>, <<>>)

edit_p2(ud, update) ==
    IF ud = <<>> THEN KeyError(ud)
    ELSE IF update.photo = <<>>
         THEN Return(EDIT_P2, ud, <<Reply(update, "send_a_photo")>>, <<>>)
         ELSE Return(REVIEW,
                     <<[ud[1] EXCEPT !.photo2_id = update.photo[Len(update.photo)]]>>,
                     <<send_preview(update)>>, <<>>)

\* ------------------------------------------------------------------ utility commands
\* cmd_cancel without the clear()
cmd_cancel_keeps_data(ud, update) ==
    Return(END, ud, <<Reply(update, "cancelled")>>, <<>>)

cmd_cancel(ud, update) ==
    Return(END, <<>>, <<Reply(update, "cancelled")>>, <<>>)

cmd_id(ud, update) ==
    Return(END, ud, <<Reply(update, "your_chat_id")>>, <<>>)

cmd_help(ud, update) ==
    Return(END, ud, <<Reply(update, "commands")>>, <<>>)

\* ------------------------------------------------------------------ review actions
\* the completeness test without the price
Complete_without_price(lst) ==
    /\ lst.name # <<>>
    /\ lst.category # <<>>
    /\ lst.photo1_id # None
    /\ lst.photo2_id # None

\* the completeness test without the name
Complete_without_name(lst) ==
    /\ lst.category # <<>>
    /\ lst.price_per_day.mant # 0
    /\ lst.photo1_id # None
    /\ lst.photo2_id # None

Complete(lst) ==
    /\ lst.name # <<>>
    /\ lst.category # <<>>
    /\ lst.price_per_day.mant # 0
    /\ lst.photo1_id # None
    /\ lst.photo2_id # None

\* one send to the admin chat; media is the number of photos grouped in it
Send(kind, media) == [chat_id |-> ADMIN_CHAT_ID, kind |-> kind, media |-> Len(media)]

\* the summary sent before the header
admin_sends_summary_first(lst) ==
    LET media == <<lst.photo1_id, lst.photo2_id>>
    IN  <<[chat_id |-> ADMIN_CHAT_ID, kind |-> "summary", media |-> 0],
          [chat_id |-> ADMIN_CHAT_ID, kind |-> "header", media |-> 0],
          [chat_id |-> ADMIN_CHAT_ID, kind |-> "media_group", media |-> Len(media)]>>

\* what a submission sends to the admin chat, in the order of the awaits
admin_sends(lst) ==
    LET media == <<lst.photo1_id, lst.photo2_id>>
    IN  <<Send("header", <<>>), Send("summary", <<>>), Send("media_group", media)>>

\* each send in a try of its own: the sends after the failing one go out too
delivered_past_failure(sends, fail) ==
    SubSeq(sends, 1, fail - 1) \o SubSeq(sends, fail + 1, Len(sends))

\* a failing send that takes the earlier sends of the submission back
delivered_nothing(sends, fail) == <<>>

\* the sends that went through when the fail-th one raises: the try block
\* is left at the first exception
delivered(sends, fail) == SubSeq(sends, 1, fail - 1)

\* review_actions without the test of ADMIN_CHAT_ID: the sends go out to chat 0
review_actions_without_admin_test(ud, update, fail) ==
    LET data == update.data
        lst == ud[1]
    IN  IF ud = <<>>
        THEN Return(END, ud, <<Reply(update, "no_active_listing")>>, <<>>)
        ELSE IF data = "edit_name"
        THEN Return(EDIT_NAME, ud, <<Reply(update, "new_name")>>, <<>>)
        ELSE IF data = "edit_cat"
        THEN Return(EDIT_CAT, ud, <<Reply(update, "new_category")>>, <<>>)
        ELSE IF data = "edit_price"
        THEN Return(EDIT_PRICE, ud, <<Reply(update, "new_price")>>, <<>>)
        ELSE IF data = "edit_p1"
        THEN Return(EDIT_P1, ud, <<Reply(update, "new_photo1")>>, <<>>)
        ELSE IF data = "edit_p2"
        THEN Return(EDIT_P2, ud, <<Reply(update, "new_photo2")>>, <<>>)
        ELSE IF data = "submit"
        THEN IF ~Complete(lst)
             THEN Return(REVIEW, ud,
                         <<Reply(update, "incomplete"), send_preview(update)>>, <<>>)
             ELSE LET sends == admin_sends(lst)
                  IN  IF fail \in 1..Len(sends)
                      THEN Return(END, ud, <<Reply(update, "could_not_deliver")>>,
                                  delivered(sends, fail))
                      ELSE Return(END, <<>>, <<Reply(update, "submitted")>>, sends)
        ELSE IF data = "cancel"
        THEN Return(END, <<>>, <<Reply(update, "cancelled")>>, <<>>)
        ELSE Return(REVIEW, ud, <<>>, <<>>)

\* fail = 0: every send to the admin chat succeeds;
\* fail = n: the n-th send of the submission raises
review_actions(ud, update, fail) ==
    LET data == update.data
        lst == ud[1]
    IN  IF ud = <<>>
        THEN Return(END, ud, <<Reply(update, "no_active_listing")>>, <<>>)
        ELSE IF data = "edit_name"
        THEN Return(EDIT_NAME, ud, <<Reply(update, "new_name")>>, <<>>)
        ELSE IF data = "edit_cat"
        THEN Return(EDIT_CAT, ud, <<Reply(update, "new_category")>>, <<>>)
        ELSE IF data = "edit_price"
        THEN Return(EDIT_PRICE, ud, <<Reply(update, "new_price")>>, <<>>)
        ELSE IF data = "edit_p1"
        THEN Return(EDIT_P1, ud, <<Reply(update, "new_photo1")>>, <<>>)
        ELSE IF data = "edit_p2"
        THEN Return(EDIT_P2, ud, <<Reply(update, "new_photo2")>>, <<>>)
        ELSE IF data = "submit"
        THEN IF ~Complete(lst)
             THEN Return(REVIEW, ud,
                         <<Reply(update, "incomplete"), send_preview(update)>>, <<>>)
             ELSE IF ADMIN_CHAT_ID = 0
             THEN Return(REVIEW, ud, <<Reply(update, "admin_not_set")>>, <<>>)
             ELSE LET sends == admin_sends(lst)
                  IN  IF fail \in 1..Len(sends)
                      THEN Return(END, ud, <<Reply(update, "could_not_deliver")>>,
                                  delivered(sends, fail))
                      ELSE Return(END, <<>>, <<Reply(update, "submitted")>>, sends)
        ELSE IF data = "cancel"
        THEN Return(END, <<>>, <<Reply(update, "cancelled")>>, <<>>)
        ELSE Return(REVIEW, ud, <<>>, <<>>)

\* ------------------------------------------------------------------ main
\* filters.TEXT & ~filters.COMMAND
TextFilter(update) == update.kind = "text" /\ update.text # <<>>

\* filters.PHOTO
PhotoFilter(update) == update.kind = "photo" /\ update.photo # <<>>

\* the commands, as the text after the slash
start == <<"s","t","a","r","t">>

cancel == <<"c","a","n","c","e","l">>

id == <<"i","d">>

help == <<"h","e","l","p">>

\* CommandHandler(name, ...)
CommandFilter(update, name) == update.kind = "command" /\ update.text = name

\* the states with a text handler registered under REVIEW as well
StateHandler_text_in_review(state, update) ==
    CASE state = NAME /\ TextFilter(update) -> "handle_name"
      [] state = CATEGORY /\ TextFilter(update) -> "handle_category"
      [] state = PRICE /\ TextFilter(update) -> "handle_price"
      [] state = PHOTO1 /\ PhotoFilter(update) -> "handle_photo1"
      [] state = PHOTO2 /\ PhotoFilter(update) -> "handle_photo2"
      [] state = REVIEW /\ update.kind = "button" -> "review_actions"
      [] state = REVIEW /\ TextFilter(update) -> "edit_name"
      [] state = EDIT_NAME /\ TextFilter(update) -> "edit_name"
      [] state = EDIT_CAT /\ TextFilter(update) -> "edit_cat"
      [] state = EDIT_PRICE /\ TextFilter(update) -> "edit_price"
      [] state = EDIT_P1 /\ PhotoFilter(update) -> "edit_p1"
      [] state = EDIT_P2 /\ PhotoFilter(update) -> "edit_p2"
      [] OTHER -> "none"

\* the handler registered for a state, when the update passes its filter
StateHandler(state, update) ==
    CASE state = NAME /\ TextFilter(update) -> "handle_name"
      [] state = CATEGORY /\ TextFilter(update) -> "handle_category"
      [] state = PRICE /\ TextFilter(update) -> "handle_price"
      [] state = PHOTO1 /\ PhotoFilter(update) -> "handle_photo1"
      [] state = PHOTO2 /\ PhotoFilter(update) -> "handle_photo2"
      [] state = REVIEW /\ update.kind = "button" -> "review_actions"
      [] state = EDIT_NAME /\ TextFilter(update) -> "edit_name"
      [] state = EDIT_CAT /\ TextFilter(update) -> "edit_cat"
      [] state = EDIT_PRICE /\ TextFilter(update) -> "edit_price"
      [] state = EDIT_P1 /\ PhotoFilter(update) -> "edit_p1"
      [] state = EDIT_P2 /\ PhotoFilter(update) -> "edit_p2"
      [] OTHER -> "none"

allow_reentry == TRUE

\* The handler that gets the update: the conversation's entry point, then the
\* handler of the current state, then its fallback; an update the conversation
\* does not take goes to the /id and /help handlers.
check_update(state, update) ==
    IF CommandFilter(update, start) /\ (state = END \/ allow_reentry)
    THEN "cmd_start"
    ELSE IF state # END /\ StateHandler(state, update) # "none"
    THEN StateHandler(state, update)
    ELSE IF state # END /\ CommandFilter(update, cancel)
    THEN "cmd_cancel"
    ELSE IF CommandFilter(update, id) THEN "cmd_id"
    ELSE IF CommandFilter(update, help) THEN "cmd_help"
    ELSE "none"

ConversationHandlers ==
    {"cmd_start", "handle_name", "handle_category", "handle_price",
     "handle_photo1", "handle_photo2", "review_actions", "edit_name",
     "edit_cat", "edit_price", "edit_p1", "edit_p2", "cmd_cancel"}

Call(handler, ud, update, fail) ==
    CASE handler = "cmd_start" -> cmd_start(ud, update)
      [] handler = "handle_name" -> handle_name(ud, update)
      [] handler = "handle_category" -> handle_category(ud, update)
      [] handler = "handle_price" -> handle_price(ud, update)
      [] handler = "handle_photo1" -> handle_photo1(ud, update)
      [] handler = "handle_photo2" -> handle_photo2(ud, update)
      [] handler = "review_actions" -> review_actions(ud, update, fail)
      [] handler = "edit_name" -> edit_name(ud, update)
      [] handler = "edit_cat" -> edit_cat(ud, update)
      [] handler = "edit_price" -> edit_price(ud, update)
      [] handler = "edit_p1" -> edit_p1(ud, update)
      [] handler = "edit_p2" -> edit_p2(ud, update)
      [] handler = "cmd_cancel" -> cmd_cancel(ud, update)
      [] handler = "cmd_id" -> cmd_id(ud, update)
      [] handler = "cmd_help" -> cmd_help(ud, update)
      [] OTHER -> Return(END, ud, <<>>, <<>>)

\* ------------------------------------------------------------------ the machine
Chats == {"c1", "c2"}

Users == {"u1"}

\* a conversation key is (chat id, user id)
Keys == Chats \X Users

\* What the application holds once handler has taken an update of key k and
\* left r.  A handler that returns sets the key's state; one that raises
\* leaves it as it was.
applied(k, handler, r) ==
    [conv |-> IF handler \in ConversationHandlers /\ ~r.raised
              THEN [conv EXCEPT ![k] = r.ret]
              ELSE conv,
     user_data |-> [user_data EXCEPT ![k[2]] = r.user_data],
     sink |-> [sink EXCEPT ![k] = IF handler = "cmd_start" THEN <<>>
                                  ELSE @ \o r.sent],
     out |-> r.out,
     raised |-> r.raised,
     handled |-> handler]

\* the one element of a singleton
The(S) == CHOOSE x \in S : TRUE

\* the handler check_update finds for the update is called on the user's data
dispatch(k, handler, update, fail) ==
    The({ applied(k, handler, r) : r \in {Call(handler, user_data[k[2]], update, fail)} })

after(k, update, fail) ==
    The({ dispatch(k, handler, update, fail) : handler \in {check_update(conv[k], update)} })

\* One update for key k, handled to completion.
process_update(k, update, fail) ==
    \E a \in {after(k, update, fail)} :
        /\ conv' = a.conv
        /\ user_data' = a.user_data
        /\ sink' = a.sink
        /\ out' = a.out
        /\ raised' = a.raised
        /\ handled' = a.handled
        /\ UNCHANGED <<ADMIN_CHAT_ID, price_call>>

\* ------------------------------------------------------------------ inputs
T_exotic == <<" ","e","x","o","t","i","c"," ">>

T_blank == <<" ">>

T_zero == <<"0">>

T_minus5 == <<"-","5">>

Texts == {T_exotic, T_blank, T_zero, T_minus5}

Photos == { <<"P1s", "P1">>, <<"P2">> }

Commands == {start, cancel, id}

\* callback data of the buttons other than submit; "other" is data no button carries
Buttons ==
    {"edit_name", "edit_cat", "edit_price", "edit_p1", "edit_p2",
     "cancel", "other"}

FailPoints == 0..3

AdminIds == {0, 777}

CommandUpdate(k, name) == Update(k[1], k[2], "command", name, <<>>, "")

TextUpdate(k, t) == Update(k[1], k[2], "text", t, <<>>, "")

PhotoUpdate(k, p) == Update(k[1], k[2], "photo", <<>>, p, "")

DocumentUpdate(k) == Update(k[1], k[2], "document", <<>>, <<>>, "")

ButtonUpdate(k, data) == Update(k[1], k[2], "button", <<>>, <<>>, data)

Command(k, name) == process_update(k, CommandUpdate(k, name), 0)

Text(k, t) == process_update(k, TextUpdate(k, t), 0)

Photo(k, p) == process_update(k, PhotoUpdate(k, p), 0)

Document(k) == process_update(k, DocumentUpdate(k), 0)

Button(k, data) == process_update(k, ButtonUpdate(k, data), 0)

\* the submit button; fail says which send to the admin chat raises, if any
Submit(k, fail) == process_update(k, ButtonUpdate(k, "submit"), fail)

Init ==
    /\ conv = [k \in Keys |-> END]
    /\ user_data = [u \in Users |-> <<>>]
    /\ sink = [k \in Keys |-> <<>>]
    /\ out = <<>>
    /\ raised = FALSE
    /\ handled = "none"
    /\ ADMIN_CHAT_ID \in AdminIds
    /\ price_call = <<>>

Next ==
    \/ \E k \in Keys, name \in Commands : Command(k, name)
    \/ \E k \in Keys, t \in Texts : Text(k, t)
    \/ \E k \in Keys, p \in Photos : Photo(k, p)
    \/ \E k \in Keys : Document(k)
    \/ \E k \in Keys, data \in Buttons : Button(k, data)
    \/ \E k \in Keys, fail \in FailPoints : Submit(k, fail)

Spec == Init /\ [][Next]_vars

\* ------------------------------------------------------------------ one input, any text
\* The validators on every text of a bounded set: a conversation that stands
\* in one of the states taking text receives one text (SpecInputs), and
\* clean_price is applied to a text (SpecCleanPrice).
MaxLen == 3

Alphabet == {"0", "5", ".", "-", "a", " "}

BoundedTexts == UNION { [1..n -> Alphabet] : n \in 0..MaxLen }

lower(s) == [i \in 1..Len(s) |-> ToLower(s[i])]

upper(s) == [i \in 1..Len(s) |-> ToUpper(s[i])]

\* the category words in several cases, padded with whitespace, and near misses
CategoryTexts ==
    LET words == UNION { {c, lower(c), upper(c), <<ToLower(Head(c))>> \o upper(Tail(c))}
                         : c \in CATEGORIES }
        pads == {<<>>, <<" ">>, <<"\n", "\t">>}
    IN  UNION { { l \o w \o r,
                  l \o SubSeq(w, 1, 2) \o <<" ">> \o SubSeq(w, 3, Len(w)) \o r,
                  l \o SubSeq(w, 1, Len(w) - 1) \o r,
                  l \o w \o <<"s">> \o r }
                : l \in pads, r \in pads, w \in words }
        \cup { <<"S","p","o","r","t","s">> }

AllTexts == BoundedTexts \cup CategoryTexts \cup Texts

Photo1 == "P1"

Photo2 == "P2"

\* the Listing of a conversation that has come to a state on the intake path
ListingAt(state) ==
    LET named == [Listing EXCEPT !.name = strip(T_exotic)]
        chosen == [named EXCEPT !.category = <<"L","u","x","u","r","y">>]
        priced == [chosen EXCEPT !.price_per_day = clean_price(T_minus5)]
    IN  CASE state = NAME -> Listing
          [] state = CATEGORY -> named
          [] state = PRICE -> chosen
          [] OTHER -> [priced EXCEPT !.photo1_id = Photo1, !.photo2_id = Photo2]

TextStates == {NAME, CATEGORY, PRICE, EDIT_NAME, EDIT_CAT, EDIT_PRICE}

\* no update has been handled yet
Awaiting == handled = "none" /\ out = <<>> /\ price_call = <<>>

FirstText(k, t) == Awaiting /\ Text(k, t)

InitInputs ==
    /\ \E k \in Keys, state \in TextStates :
          /\ conv = [j \in Keys |-> IF j = k THEN state ELSE END]
          /\ user_data = [u \in Users |-> <<ListingAt(state)>>]
    /\ sink = [k \in Keys |-> <<>>]
    /\ out = <<>>
    /\ raised = FALSE
    /\ handled = "none"
    /\ ADMIN_CHAT_ID \in AdminIds \ {0}
    /\ price_call = <<>>

NextInputs == \E k \in Keys, t \in AllTexts : FirstText(k, t)

SpecInputs == InitInputs /\ [][NextInputs]_vars

\* clean_price applied to a text
CallCleanPrice(t) ==
    /\ Awaiting
    /\ price_call' = <<t, clean_price(t)>>
    /\ UNCHANGED <<conv, user_data, sink, out, raised, handled, ADMIN_CHAT_ID>>

NextCleanPrice == \E t \in AllTexts : CallCleanPrice(t)

SpecCleanPrice == Init /\ [][NextCleanPrice]_vars

\* ------------------------------------------------------------------ properties
\* What the properties below say of a Listing, a text or a send is written
\* here from the specification's words, apart from the handlers above.
HasListing(k) == user_data[k[2]] # <<>>

ListingOf(k) == user_data[k[2]][1]

Unset(lst) ==
    \/ lst.name = <<>>
    \/ lst.category = <<>>
    \/ lst.price_per_day.mant = 0
    \/ lst.photo1_id = None
    \/ lst.photo2_id = None

AllUnset(lst) ==
    /\ lst.name = <<>>
    /\ lst.category = <<>>
    /\ lst.price_per_day.mant = 0
    /\ lst.photo1_id = None
    /\ lst.photo2_id = None

\* every field holds what its validator accepts: a non-empty name, one of the
\* three categories, a non-negative price, two photos
FieldsValid(lst) ==
    /\ lst.name # <<>>
    /\ lst.category \in CATEGORIES
    /\ lst.price_per_day.mant >= 0
    /\ lst.photo1_id # None
    /\ lst.photo2_id # None

Fields == {"name", "category", "price_per_day", "photo1_id", "photo2_id"}

\* the Listing b is the Listing a but for the one field
OnlyChanged(a, b, field) == \A f \in Fields \ {field} : a[f] = b[f]

ToUser(k, msg) == [chat |-> k[1], msg |-> msg]

ToAdmin(kind, n) == [chat_id |-> ADMIN_CHAT_ID, kind |-> kind, media |-> n]

Delivery == <<ToAdmin("header", 0), ToAdmin("summary", 0), ToAdmin("media_group", 2)>>

Press(k, data, fail) == IF data = "submit" THEN Submit(k, fail) ELSE Button(k, data)

\* every update the model feeds to key k, with the send that fails in it
UpdatesOf(k) ==
    ({CommandUpdate(k, name) : name \in Commands}
        \cup {TextUpdate(k, t) : t \in Texts}
        \cup {PhotoUpdate(k, p) : p \in Photos}
        \cup {DocumentUpdate(k)}
        \cup {ButtonUpdate(k, data) : data \in Buttons \cup {"submit"}})
    \X FailPoints

SevenActions ==
    {"edit_name", "edit_cat", "edit_price", "edit_p1", "edit_p2", "submit", "cancel"}

\* the text without its surrounding whitespace
Trimmed(t) ==
    LET solid == {i \in 1..Len(t) : t[i] \notin Whitespace}
        first == CHOOSE i \in solid : \A j \in solid : i <= j
        last == CHOOSE i \in solid : \A j \in solid : j <= i
    IN  IF solid = {} THEN <<>> ELSE SubSeq(t, first, last)

SameIgnoringCase(a, b) ==
    /\ Len(a) = Len(b)
    /\ \A i \in 1..Len(a) : ToLower(a[i]) = ToLower(b[i])

CategoryNamed(t) == {c \in CATEGORIES : SameIgnoringCase(Trimmed(t), c)}

RECURSIVE Pow10(_)
Pow10(n) == IF n = 0 THEN 1 ELSE 10 * Pow10(n - 1)

\* the positions of the text that survive the cleaning, and what they denote
KeptDigits(t) == {i \in 1..Len(t) : \E d \in 0..9 : DigitChars[d + 1] = t[i]}

KeptDots(t) == {i \in 1..Len(t) : t[i] = "."}

PriceInvalid(t) ==
    \/ KeptDigits(t) \cup KeptDots(t) = {}
    \/ Cardinality(KeptDots(t)) > 1
    \/ KeptDigits(t) = {}

RECURSIVE DigitSum(_, _)
DigitSum(t, S) ==
    IF S = {} THEN 0
    ELSE LET i == CHOOSE x \in S : TRUE
             d == CHOOSE x \in 0..9 : DigitChars[x + 1] = t[i]
             behind == Cardinality({j \in KeptDigits(t) : j > i})
         IN  d * Pow10(behind) + DigitSum(t, S \ {i})

FractionDigits(t) ==
    Cardinality({i \in KeptDigits(t) : \E j \in KeptDots(t) : j < i})

\* the float v is the number the kept characters of t spell
Denotes(t, v) ==
    /\ v.mant >= 0
    /\ v.exp >= 0
    /\ v.mant * Pow10(FractionDigits(t)) = DigitSum(t, KeptDigits(t)) * Pow10(v.exp)

\* a price text the specification takes: it parses and carries no minus sign
PriceValid(t) == ~PriceInvalid(t) /\ \A i \in 1..Len(t) : t[i] # "-"

\* ------------------------------------------------------------------ C1
\* C1 (as amended): a submit pressed in REVIEW on a Listing whose five fields
\* are all set, with the admin chat configured and every send succeeding, ends
\* the conversation, discards the Listing, and the admin chat has received
\* from this conversation the header, then the summary, then the group of two
\* photos, and nothing else.
C1_RoundTrip ==
    \A k \in Keys :
        (/\ conv[k] = REVIEW
         /\ HasListing(k)
         /\ ~Unset(ListingOf(k))
         /\ ADMIN_CHAT_ID # 0)
        => \A a \in {after(k, ButtonUpdate(k, "submit"), 0)} :
              /\ a.conv[k] = END
              /\ a.user_data[k[2]] = <<>>
              /\ a.sink[k] = Delivery

\* C1 as written: the same of every Listing built from inputs the validators
\* accept, a price of zero among them.
C1_AnyValidInputs ==
    [][\A k \in Keys :
        (/\ conv[k] = REVIEW
         /\ HasListing(k)
         /\ FieldsValid(ListingOf(k))
         /\ ADMIN_CHAT_ID # 0
         /\ Submit(k, 0))
        => (/\ conv'[k] = END
            /\ user_data'[k[2]] = <<>>
            /\ sink'[k] = Delivery)]_vars

C1_Submitted ==
    \E k \in Keys :
        /\ handled = "review_actions"
        /\ out = <<ToUser(k, "submitted")>>
        /\ conv[k] = END
        /\ user_data[k[2]] = <<>>
        /\ sink[k] = Delivery

\* ------------------------------------------------------------------ C2
\* C2: a submit in REVIEW on a Listing with a field unset leaves the state
\* REVIEW, leaves the Listing as it was and sends nothing to the admin chat.
C2_IncompleteSubmit ==
    \A k \in Keys, fail \in FailPoints :
        (/\ conv[k] = REVIEW
         /\ HasListing(k)
         /\ Unset(ListingOf(k)))
        => \A a \in {after(k, ButtonUpdate(k, "submit"), fail)} :
              /\ a.conv[k] = REVIEW
              /\ a.user_data = user_data
              /\ a.sink = sink

C2_Refused ==
    \E k \in Keys :
        /\ handled = "review_actions"
        /\ out = <<ToUser(k, "incomplete"), ToUser(k, "preview")>>
        /\ conv[k] = REVIEW
        /\ HasListing(k)
        /\ Unset(ListingOf(k))

\* ------------------------------------------------------------------ C3
EditStateOf(data) ==
    CASE data = "edit_name" -> EDIT_NAME
      [] data = "edit_cat" -> EDIT_CAT
      [] data = "edit_price" -> EDIT_PRICE
      [] data = "edit_p1" -> EDIT_P1
      [] data = "edit_p2" -> EDIT_P2

\* a holds k back in REVIEW with the one field of its Listing edited
Edited(k, a, field) ==
    /\ a.conv[k] = REVIEW
    /\ a.user_data[k[2]] # <<>>
    /\ OnlyChanged(ListingOf(k), a.user_data[k[2]][1], field)

\* C3: in REVIEW an edit button moves to its EDIT_* state and leaves the
\* Listing alone; the valid input that follows sets that one field, leaves the
\* other four and returns to REVIEW.
C3_EditOneField ==
    \A k \in Keys : HasListing(k) =>
        /\ conv[k] = REVIEW =>
              \A data \in SevenActions \ {"submit", "cancel"} :
              \A a \in {after(k, ButtonUpdate(k, data), 0)} :
                  a.conv[k] = EditStateOf(data) /\ a.user_data = user_data
        /\ conv[k] = EDIT_NAME =>
              \A t \in {x \in Texts : Trimmed(x) # <<>>} :
              \A a \in {after(k, TextUpdate(k, t), 0)} :
                  Edited(k, a, "name") /\ a.user_data[k[2]][1].name = Trimmed(t)
        /\ conv[k] = EDIT_CAT =>
              \A t \in {x \in Texts : CategoryNamed(x) # {}} :
              \A a \in {after(k, TextUpdate(k, t), 0)} :
                  /\ Edited(k, a, "category")
                  /\ a.user_data[k[2]][1].category \in CategoryNamed(t)
        /\ conv[k] = EDIT_PRICE =>
              \A t \in {x \in Texts : PriceValid(x)} :
              \A a \in {after(k, TextUpdate(k, t), 0)} :
                  /\ Edited(k, a, "price_per_day")
                  /\ Denotes(t, a.user_data[k[2]][1].price_per_day)
        /\ conv[k] = EDIT_P1 =>
              \A p \in Photos :
              \A a \in {after(k, PhotoUpdate(k, p), 0)} :
                  /\ Edited(k, a, "photo1_id")
                  /\ a.user_data[k[2]][1].photo1_id = p[Len(p)]
        /\ conv[k] = EDIT_P2 =>
              \A p \in Photos :
              \A a \in {after(k, PhotoUpdate(k, p), 0)} :
                  /\ Edited(k, a, "photo2_id")
                  /\ a.user_data[k[2]][1].photo2_id = p[Len(p)]

C3_PhotoReplaced ==
    \E k \in Keys :
        /\ handled = "edit_p1"
        /\ out = <<ToUser(k, "preview")>>
        /\ conv[k] = REVIEW
        /\ HasListing(k)
        /\ ListingOf(k).photo1_id = Photo2
        /\ ListingOf(k).photo2_id = Photo1
        /\ ListingOf(k).name # <<>>
        /\ ListingOf(k).category # <<>>

\* ------------------------------------------------------------------ C4
\* C4: /cancel in any state but TERMINATED, and the cancel button in REVIEW,
\* discard the Listing and end the conversation whatever the Listing holds;
\* the /start that follows begins in NAME with all five fields unset.
C4_Cancel ==
    \A k \in Keys :
        /\ conv[k] # END =>
              \A a \in {after(k, CommandUpdate(k, cancel), 0)} :
                  a.conv[k] = END /\ a.user_data[k[2]] = <<>>
        /\ conv[k] = REVIEW =>
              \A a \in {after(k, ButtonUpdate(k, "cancel"), 0)} :
                  a.conv[k] = END /\ a.user_data[k[2]] = <<>>
        /\ out = <<ToUser(k, "cancelled")>> =>
              \A a \in {after(k, CommandUpdate(k, start), 0)} :
                  /\ a.conv[k] = NAME
                  /\ a.user_data[k[2]] # <<>>
                  /\ AllUnset(a.user_data[k[2]][1])

C4_Cancelled ==
    \E k \in Keys :
        /\ handled = "cmd_cancel"
        /\ out = <<ToUser(k, "cancelled")>>
        /\ conv[k] = END
        /\ user_data[k[2]] = <<>>

\* ------------------------------------------------------------------ C5
\* C5: a review action that arrives while the user's session holds no Listing
\* is answered with "no active listing" and changes no stored data.
C5_NoActiveListing ==
    [][\A k \in Keys, data \in SevenActions, fail \in FailPoints :
        (~HasListing(k) /\ Press(k, data, fail))
        => (/\ out' = <<ToUser(k, "no_active_listing")>>
            /\ user_data' = user_data)]_vars

\* ------------------------------------------------------------------ C6
\* C6: in CATEGORY and EDIT_CATEGORY a text is accepted iff, trimmed and with
\* letter case ignored, it is Exotic, Economic or Luxury; accepted, the
\* category stored is the title-case word; rejected, state and Listing stay.
C6_Category ==
    \A k \in Keys :
        (Awaiting /\ conv[k] \in {CATEGORY, EDIT_CAT} /\ HasListing(k)) =>
            \A t \in AllTexts :
            \A a \in {after(k, TextUpdate(k, t), 0)} :
                IF CategoryNamed(t) # {}
                THEN /\ a.conv[k] = (IF conv[k] = CATEGORY THEN PRICE ELSE REVIEW)
                     /\ a.user_data[k[2]] # <<>>
                     /\ OnlyChanged(ListingOf(k), a.user_data[k[2]][1], "category")
                     /\ a.user_data[k[2]][1].category \in CategoryNamed(t)
                ELSE /\ a.conv[k] = conv[k]
                     /\ a.user_data = user_data

C6_Accepted ==
    \E k \in Keys :
        /\ handled = "edit_cat"
        /\ conv[k] = REVIEW
        /\ HasListing(k)
        /\ ListingOf(k).category = <<"E","c","o","n","o","m","i","c">>

\* ------------------------------------------------------------------ C7
\* C7: in PRICE and EDIT_PRICE the input "-5" is invalid: state and Listing
\* stay as they were.
C7_NegativePrice ==
    [][\A k \in Keys :
        (conv[k] \in {PRICE, EDIT_PRICE} /\ HasListing(k) /\ Text(k, T_minus5))
        => (conv'[k] = conv[k] /\ user_data' = user_data)]_vars

\* ------------------------------------------------------------------ C8
\* C8: clean_price drops every character that is neither a digit nor '.';
\* it answers invalid iff nothing is left, more than one '.' is left or what
\* is left is no number, and otherwise the number the kept characters spell.
C8_CleanPrice ==
    price_call # <<>> =>
        LET t == price_call[1]
            v == price_call[2]
        IN  IF PriceInvalid(t) THEN v = NoPrice
            ELSE v # NoPrice /\ Denotes(t, v)

C8_ParsedThroughNoise ==
    /\ price_call # <<>>
    /\ price_call[1] = <<"a", ".", "5">>
    /\ price_call[2] = Float(5, 1)

\* ------------------------------------------------------------------ C9
\* C9: in NAME and EDIT_NAME a text that is empty once trimmed is refused:
\* the state does not move and the name is not changed.
C9_BlankName ==
    [][\A k \in Keys :
        (conv[k] \in {NAME, EDIT_NAME} /\ HasListing(k) /\ Text(k, T_blank))
        => (conv'[k] = conv[k] /\ user_data' = user_data)]_vars

\* ------------------------------------------------------------------ C10
\* C10: when a send of a submission fails, the user gets the failure message,
\* the conversation ends, the admin chat has what was sent before the failure
\* and nothing after it, and nothing more is sent while the conversation
\* stays ended.
C10_DeliveryFailure ==
    \A k \in Keys :
        /\ (/\ conv[k] = REVIEW
            /\ HasListing(k)
            /\ ~Unset(ListingOf(k))
            /\ ADMIN_CHAT_ID # 0)
           => \A fail \in FailPoints \ {0} :
              \A a \in {after(k, ButtonUpdate(k, "submit"), fail)} :
                  /\ a.out = <<ToUser(k, "could_not_deliver")>>
                  /\ a.conv[k] = END
                  /\ a.sink[k] = sink[k] \o SubSeq(Delivery, 1, fail - 1)
        /\ conv[k] = END =>
              \A u \in UpdatesOf(k) :
              \A a \in {after(k, u[1], u[2])} :
                  a.conv[k] = END => a.sink[k] = sink[k]

C10_FailedAfterHeader ==
    \E k \in Keys :
        /\ handled = "review_actions"
        /\ out = <<ToUser(k, "could_not_deliver")>>
        /\ conv[k] = END
        /\ sink[k] = <<ToAdmin("header", 0)>>

\* ------------------------------------------------------------------ C11
\* C11: whenever a conversation comes to TERMINATED, by a submission, a failed
\* delivery, a cancel or the no-active-listing guard, the user's storage holds
\* no Listing any more.
C11_DiscardedAtEnd ==
    [][\A k \in Keys :
        (conv[k] # END /\ conv'[k] = END) => user_data'[k[2]] = <<>>]_vars

\* ------------------------------------------------------------------ C12
\* C12: a submit in REVIEW on a complete Listing while ADMIN_CHAT_ID is 0 is
\* answered with the configuration instruction; nothing is sent to the admin
\* chat, the Listing is unchanged and the state stays REVIEW, whatever the
\* transport would have done with a send.
C12_AdminNotSet ==
    \A k \in Keys, fail \in FailPoints :
        (/\ conv[k] = REVIEW
         /\ HasListing(k)
         /\ ~Unset(ListingOf(k))
         /\ ADMIN_CHAT_ID = 0)
        => \A a \in {after(k, ButtonUpdate(k, "submit"), fail)} :
              /\ a.out = <<ToUser(k, "admin_not_set")>>
              /\ a.sink = sink
              /\ a.user_data = user_data
              /\ a.conv[k] = REVIEW

C12_Instructed ==
    \E k \in Keys :
        /\ handled = "review_actions"
        /\ out = <<ToUser(k, "admin_not_set")>>
        /\ ADMIN_CHAT_ID = 0
        /\ conv[k] = REVIEW
        /\ HasListing(k)
        /\ ~Unset(ListingOf(k))
        /\ sink[k] = <<>>

\* ------------------------------------------------------------------ C13
\* every update the model feeds to key k
EventsOf(k) == {u[1] : u \in UpdatesOf(k)}

\* C13: an update handled in one conversation never changes, replaces or
\* discards the Listing that another conversation in progress reads.
C13_NoSharedListing ==
    [][\A k \in Keys, j \in Keys :
        (/\ k # j
         /\ conv[j] # END
         /\ \E u \in UpdatesOf(k) : process_update(k, u[1], u[2]))
        => user_data'[j[2]] = user_data[j[2]]]_vars

\* ------------------------------------------------------------------ C14
CollectionStates == {NAME, CATEGORY, PRICE, PHOTO1, PHOTO2}

EditStates == {EDIT_NAME, EDIT_CAT, EDIT_PRICE, EDIT_P1, EDIT_P2}

\* the intake path
NextOf(state) ==
    CASE state = NAME -> CATEGORY
      [] state = CATEGORY -> PRICE
      [] state = PRICE -> PHOTO1
      [] state = PHOTO1 -> PHOTO2
      [] state = PHOTO2 -> REVIEW

FieldOf(state) ==
    CASE state \in {NAME, EDIT_NAME} -> "name"
      [] state \in {CATEGORY, EDIT_CAT} -> "category"
      [] state \in {PRICE, EDIT_PRICE} -> "price_per_day"
      [] state \in {PHOTO1, EDIT_P1} -> "photo1_id"
      [] state \in {PHOTO2, EDIT_P2} -> "photo2_id"

IsCommand(update, name) == update.kind = "command" /\ update.text = name

\* C14: from a collection state an update leaves the state where it is or
\* moves it to the next state of NAME, CATEGORY, PRICE, PHOTO1, PHOTO2, REVIEW
\* (/start and /cancel apart), and the move changes that state's field only;
\* REVIEW is entered from PHOTO2 and from the edit states only, and an edit
\* state from REVIEW only.
C14_LinearIntake ==
    \A k \in Keys : \A u \in EventsOf(k) : \A a \in {after(k, u, 0)} :
        /\ conv[k] \in CollectionStates =>
              IF IsCommand(u, start) THEN a.conv[k] = NAME
              ELSE IF IsCommand(u, cancel) THEN a.conv[k] = END
              ELSE /\ a.conv[k] \in {conv[k], NextOf(conv[k])}
                   /\ a.conv[k] = NextOf(conv[k]) =>
                         /\ HasListing(k)
                         /\ a.user_data[k[2]] # <<>>
                         /\ OnlyChanged(ListingOf(k), a.user_data[k[2]][1],
                                        FieldOf(conv[k]))
                   /\ a.conv[k] = conv[k] => a.user_data = user_data
        /\ (a.conv[k] = REVIEW /\ conv[k] # REVIEW) =>
              conv[k] \in {PHOTO2} \cup EditStates
        /\ (a.conv[k] \in EditStates /\ conv[k] # a.conv[k]) => conv[k] = REVIEW

C14_ReviewReached ==
    \E k \in Keys :
        /\ handled = "handle_photo2"
        /\ out = <<ToUser(k, "preview")>>
        /\ conv[k] = REVIEW
        /\ HasListing(k)
        /\ ~Unset(ListingOf(k))

\* ------------------------------------------------------------------ C15
\* C15: /start in any state, TERMINATED or not, moves to NAME and leaves in
\* the user's storage a Listing whose five fields are all unset.
C15_BeginResets ==
    \A k \in Keys : \A a \in {after(k, CommandUpdate(k, start), 0)} :
        /\ a.conv[k] = NAME
        /\ a.user_data[k[2]] # <<>>
        /\ AllUnset(a.user_data[k[2]][1])
        /\ a.handled = "cmd_start"

\* a /start has emptied a Listing that had been filled up to the review
C15_Restarted ==
    \E k \in Keys, j \in Keys :
        /\ handled = "cmd_start"
        /\ out = <<ToUser(k, "send_name")>>
        /\ conv[k] = NAME
        /\ conv[j] = REVIEW
        /\ AllUnset(ListingOf(k))

\* ------------------------------------------------------------------ C16
\* a collection state with the edit state of the same field
StatePairs ==
    {<<NAME, EDIT_NAME>>, <<CATEGORY, EDIT_CAT>>, <<PRICE, EDIT_PRICE>>,
     <<PHOTO1, EDIT_P1>>, <<PHOTO2, EDIT_P2>>}

\* every text, every photo and a document, as sent to key k
InputsOf(k) ==
    {TextUpdate(k, t) : t \in AllTexts}
        \cup {PhotoUpdate(k, p) : p \in Photos}
        \cup {DocumentUpdate(k)}

\* C16: an EDIT_* state accepts an input exactly when the collection state of
\* the same field accepts it, and then stores the same Listing; an input it
\* does not accept leaves it in the EDIT_* state with the Listing unchanged.
C16_EditAsCollected ==
    \A k \in Keys : (Awaiting /\ HasListing(k)) =>
        \A pair \in StatePairs : \A u \in InputsOf(k) :
        \A hc \in {StateHandler(pair[1], u)} : \A he \in {StateHandler(pair[2], u)} :
        \A rc \in {Call(hc, user_data[k[2]], u, 0)} :
        \A re \in {Call(he, user_data[k[2]], u, 0)} :
            \A accepted \in {he # "none" /\ re.ret = REVIEW} :
                /\ accepted <=> (hc # "none" /\ rc.ret = NextOf(pair[1]))
                /\ accepted => re.user_data = rc.user_data
                /\ ~accepted =>
                      /\ re.user_data = user_data[k[2]]
                      /\ he = "none" \/ re.ret = pair[2]

C16_PriceEdited ==
    \E k \in Keys :
        /\ handled = "edit_price"
        /\ out = <<ToUser(k, "preview")>>
        /\ conv[k] = REVIEW
        /\ HasListing(k)
        /\ ListingOf(k).price_per_day = Float(5, 1)

\* ------------------------------------------------------------------ C17
\* every update for key k with the send that fails in it; only a submit sends
AttemptsOf(k) ==
    {<<u, 0>> : u \in EventsOf(k)}
        \cup {<<ButtonUpdate(k, "submit"), fail>> : fail \in FailPoints}

\* the admin chat has received something more once a holds
SentToAdmin(k, a) ==
    \/ Len(a.sink[k]) > Len(sink[k])
    \/ \E j \in Keys \ {k} : a.sink[j] # sink[j]

\* C17: the admin chat receives a send only while a submit is handled in
\* REVIEW on a Listing whose five fields are all set and with ADMIN_CHAT_ID
\* configured; no other update in no other state sends to it.
C17_SubmissionGate ==
    \A k \in Keys : \A u \in AttemptsOf(k) : \A a \in {after(k, u[1], u[2])} :
        SentToAdmin(k, a) =>
            /\ u[1] = ButtonUpdate(k, "submit")
            /\ conv[k] = REVIEW
            /\ HasListing(k)
            /\ ~Unset(ListingOf(k))
            /\ ADMIN_CHAT_ID # 0

C17_SentOnSubmit ==
    \E k \in Keys :
        /\ handled = "review_actions"
        /\ Len(sink[k]) > 0
        /\ ADMIN_CHAT_ID # 0
        /\ conv[k] = END

\* ------------------------------------------------------------------ C18
\* C18: what the admin chat has received of one submission is always a
\* prefix of header, summary, photo group; when the fail-th send raises the
\* sends before it stay delivered, none after it goes out and the
\* conversation ends.
C18_PrefixOfDelivery ==
    \A k \in Keys :
        /\ \E n \in 0..Len(Delivery) : sink[k] = SubSeq(Delivery, 1, n)
        /\ (/\ conv[k] = REVIEW
            /\ HasListing(k)
            /\ ~Unset(ListingOf(k))
            /\ ADMIN_CHAT_ID # 0)
           => \A fail \in FailPoints :
              \A a \in {after(k, ButtonUpdate(k, "submit"), fail)} :
                  /\ sink[k] = <<>>
                  /\ a.sink[k] = SubSeq(Delivery, 1,
                                        IF fail = 0 THEN Len(Delivery) ELSE fail - 1)
                  /\ a.conv[k] = END

C18_FailedAfterSummary ==
    \E k \in Keys :
        /\ handled = "review_actions"
        /\ out = <<ToUser(k, "could_not_deliver")>>
        /\ conv[k] = END
        /\ sink[k] = <<ToAdmin("header", 0), ToAdmin("summary", 0)>>

\* ------------------------------------------------------------------ C19
\* the update is of a kind for which the state has no handler registered
Unregistered(state, update) ==
    \/ update.kind = "button" /\ state # REVIEW
    \/ update.kind \in {"text", "photo"} /\ state = REVIEW
    \/ update.kind = "photo" /\ state \in TextStates
    \/ update.kind \in {"text", "document"}
          /\ state \in {PHOTO1, PHOTO2, EDIT_P1, EDIT_P2}

\* C19: an update of a kind that is not registered for the current state
\* leaves the state and the Listing as they were and sends nothing to the
\* admin chat.
C19_UnregisteredIgnored ==
    \A k \in Keys : \A u \in AttemptsOf(k) :
        Unregistered(conv[k], u[1]) =>
            \A a \in {after(k, u[1], u[2])} :
                /\ a.conv[k] = conv[k]
                /\ a.user_data = user_data
                /\ a.sink = sink

C19_Ignored ==
    \E k \in Keys :
        /\ handled = "none"
        /\ out = <<>>
        /\ conv[k] = PHOTO1
        /\ HasListing(k)
        /\ ListingOf(k).price_per_day.mant # 0
        /\ ListingOf(k).photo1_id = None

\* ------------------------------------------------------------------ C20
\* the texts whose kept characters spell zero
ZeroTexts ==
    {t \in {T_zero, <<"0", "0">>, <<".", "0">>, <<"0", ".", "0">>,
            <<"-", "0">>, <<"a", " ", "0", ".">>, T_minus5, T_blank} :
        ~PriceInvalid(t) /\ DigitSum(t, KeptDigits(t)) = 0}

\* C20: a text that spells zero is accepted in PRICE and EDIT_PRICE, the
\* state moves on and the price stored is 0; with the price 0 the Listing is
\* incomplete and every submit stays in REVIEW with nothing sent; the price
\* leaves 0 only through the price handlers.
C20_ZeroPrice ==
    \A k \in Keys : HasListing(k) =>
        /\ conv[k] \in {PRICE, EDIT_PRICE} =>
              \A t \in ZeroTexts : \A a \in {after(k, TextUpdate(k, t), 0)} :
                  /\ Cardinality(ZeroTexts) = 6
                  /\ a.conv[k] = (IF conv[k] = PRICE THEN PHOTO1 ELSE REVIEW)
                  /\ a.user_data[k[2]] # <<>>
                  /\ OnlyChanged(ListingOf(k), a.user_data[k[2]][1], "price_per_day")
                  /\ a.user_data[k[2]][1].price_per_day = Float(0, 0)
                  /\ Unset(a.user_data[k[2]][1])
        /\ ListingOf(k).price_per_day.mant = 0 =>
              /\ conv[k] = REVIEW =>
                    \A fail \in FailPoints :
                    \A a \in {after(k, ButtonUpdate(k, "submit"), fail)} :
                        /\ a.conv[k] = REVIEW
                        /\ a.user_data = user_data
                        /\ a.sink = sink
              /\ \A u \in EventsOf(k) : \A a \in {after(k, u, 0)} :
                    (/\ a.user_data[k[2]] # <<>>
                     /\ a.user_data[k[2]][1].price_per_day.mant # 0)
                    => /\ conv[k] \in {PRICE, EDIT_PRICE}
                       /\ a.handled \in {"handle_price", "edit_price"}

C20_RefusedAtZero ==
    \E k \in Keys :
        /\ handled = "review_actions"
        /\ out = <<ToUser(k, "incomplete"), ToUser(k, "preview")>>
        /\ conv[k] = REVIEW
        /\ HasListing(k)
        /\ ListingOf(k).name # <<>>
        /\ ListingOf(k).category # <<>>
        /\ ListingOf(k).price_per_day = Float(0, 0)
        /\ ListingOf(k).photo1_id # None
        /\ ListingOf(k).photo2_id # None

====
